---- MODULE Spec2Model ----
(***************************************************************************)
(* The browsers.json repair pipeline (fake-useragent issue #307) as it is  *)
(* implemented four times in this repository:                              *)
(*   oswe   : oswe-large-m5a1s120/issue_project_fixed/fixed_version.py     *)
(*   gpt    : gpt-5.1-codex-max/issue_project_fixed/fixed_version.py       *)
(*   opus   : Claude-Opus-4.5/issue_project_fixed/fixed_version.py         *)
(*   sonnet : Claude-sonnet-4.5/issue_project_fixed/fixed_version.py       *)
(*                                                                         *)
(* A string is a sequence of one-character strings.  A JSON value is a     *)
(* tagged record: [t |-> "str", s |-> ...], [t |-> "num", n |-> ...],      *)
(* [t |-> "arr"] (the empty array) or [t |-> "obj", r |-> record], where a *)
(* record is a function from the field names it has to values.  A line of  *)
(* a file is blank, unparsable ("bad") or holds one JSON value.            *)
(*                                                                         *)
(* Spec is the fix scripts at work on a source file; SpecVerify is the     *)
(* loaders and test scripts of the four projects (test_fix.py, tests/*.py) *)
(* at work on an original and a fixed data file; SpecRunner is the         *)
(* SimpleTestRunner of Claude-Opus-4.5's tests package collecting results. *)
(***************************************************************************)
EXTENDS Integers, Sequences, FiniteSets, TLC

\* ---------------------------------------------------------------- bounds
MaxStrLen == 1
MaxLines == 2
\* the number of add_result calls made on one SimpleTestRunner
MaxResults == 3

\* ------------------------------------------------------- program constants
ExpectedTotal == 165

\* --------------------------------------------------------------- alphabet
SPACE == " "
TAB == "\t"
CR == "\r"
\* U+007F and U+2028, each kept as one symbol
DEL == "u007f"
LSEP == "u2028"
NUL == "u0000"
\* the characters of the alphabet with ord(ch) < 32 or ord(ch) == 127
ControlChars == {TAB, CR, "\n", NUL, DEL}
Chars == {"a", SPACE}
\* the characters str.strip() / str.rstrip() remove when called with no argument
PyWhitespace == {SPACE, TAB, "\n", "\r", "u2028"}

\* every string over Chars up to the bound, a space at either end of a word,
\* the four ways a tab meets an end, and a string whose only blemish is an
\* internal run of two spaces
EdgeSamples ==
    {<<"a", SPACE>>, <<SPACE, "a">>,
     <<"a", TAB>>, <<"a", TAB, SPACE>>, <<"a", SPACE, TAB>>, <<TAB, "a">>,
     <<"a", SPACE, SPACE, "a">>}
Strings == (UNION {[1..n -> Chars] : n \in 0..MaxStrLen}) \cup EdgeSamples

Str(s) == [t |-> "str", s |-> s]
Num(n) == [t |-> "num", n |-> n]
Arr == [t |-> "arr"]
Obj(r) == [t |-> "obj", r |-> r]

IsStr(v) == v.t = "str"
IsDict(v) == v.t = "obj"

\* the value of the one field other than useragent that the model's records carry
BrowserVal == Str(<<SPACE, "a", SPACE>>)

UAValues == {Str(s) : s \in Strings} \cup {Num(7)}

Records ==
    {[f \in {"browser"} |-> BrowserVal]}
    \cup {[f \in {"useragent", "browser"} |-> IF f = "useragent" THEN u ELSE BrowserVal] : u \in UAValues}

\* a blank line keeps the whitespace it holds: none, or a space and a tab
BlankLine == [k |-> "blank", ws |-> <<>>]
WsLine == [k |-> "blank", ws |-> <<SPACE, TAB>>]
BadLine == [k |-> "bad"]
JsonLine(v) == [k |-> "json", v |-> v]

LineValues == {BlankLine, BadLine, JsonLine(Num(5)), JsonLine(Arr)}
              \cup {JsonLine(Obj(r)) : r \in Records}

NoFile == [exists |-> FALSE]
File(ls, nl) == [exists |-> TRUE, lines |-> ls, nl |-> nl]

\* ------------------------------------------------------- string operations
\* mutant: only the last character is looked at
rstrip_one(s, cs) ==
    IF s # <<>> /\ s[Len(s)] \in cs THEN SubSeq(s, 1, Len(s) - 1) ELSE s

\* str.rstrip(chars)
RECURSIVE rstrip(_, _)
rstrip(s, cs) ==
    IF s = <<>> THEN s
    ELSE IF s[Len(s)] \in cs THEN rstrip(SubSeq(s, 1, Len(s) - 1), cs)
    ELSE s

\* str.lstrip(chars)
RECURSIVE lstrip(_, _)
lstrip(s, cs) ==
    IF s = <<>> THEN s
    ELSE IF s[1] \in cs THEN lstrip(Tail(s), cs)
    ELSE s

\* mutant: only the left end is stripped
strip_left(s, cs) == lstrip(s, cs)

\* str.strip(chars)
strip(s, cs) == lstrip(rstrip(s, cs), cs)

endswith(s, c) == s # <<>> /\ s[Len(s)] = c
startswith(s, c) == s # <<>> /\ s[1] = c
\* "  " in s
HasDoubleSpace(s) == \E i \in 1..(Len(s) - 1) : s[i] = SPACE /\ s[i + 1] = SPACE

\* dict.get(key, default)
Get(r, key, default) == IF key \in DOMAIN r THEN r[key] ELSE default
\* d[key] = v on a dict
Put(r, key, v) == [f \in (DOMAIN r) \cup {key} |-> IF f = key THEN v ELSE r[f]]

None == [t |-> "none"]
EmptyStr == Str(<<>>)

\* a run's outcome: status is "ok" or the name of the exception raised, errLine the
\* file line number the exception message cites (0 when it cites none), written
\* whether the target file was (re)written, out the JSON values written
Outcome(impl, status, errLine, written, stats, out) ==
    [impl |-> impl, status |-> status, errLine |-> errLine, written |-> written,
     stats |-> stats, out |-> out]

NoStats == [total |-> 0]
\* mutant: the target is opened with "w" before the source is read
Failed_opened(impl, status, errLine) == Outcome(impl, status, errLine, TRUE, NoStats, <<>>)
\* a run that raised before it reached its write
Failed(impl, status, errLine) == Outcome(impl, status, errLine, FALSE, NoStats, <<>>)

\* ------------------------------------------------------------ reading lines
\* json.dumps escapes every character below 0x20; with ensure_ascii=False all
\* others are written as they are
JsonEscaped == {TAB, CR, "\n"}
\* the line boundaries of str.splitlines() (those the alphabet has)
SplitBreaks == {"\n", CR, LSEP}

RawBreaksIn(s) == Cardinality({i \in DOMAIN s : s[i] \in SplitBreaks \ JsonEscaped})

\* the number of raw line boundaries inside the text of one JSON line
RawBreaks(v) ==
    IF ~IsDict(v) THEN 0
    ELSE IF \E f \in DOMAIN v.r : IsStr(v.r[f]) /\ RawBreaksIn(v.r[f].s) > 0
    THEN RawBreaksIn((v.r[CHOOSE f \in DOMAIN v.r : IsStr(v.r[f]) /\ RawBreaksIn(v.r[f].s) > 0]).s)
    ELSE 0

\* path.read_text().splitlines(): a JSON text holding a raw boundary falls
\* apart into pieces, none of which parses
RECURSIVE splitlines(_)
splitlines(lines) ==
    IF lines = <<>> THEN <<>>
    ELSE LET l == Head(lines)
             n == IF l.k = "json" THEN RawBreaks(l.v) ELSE 0
         IN (IF n = 0 THEN <<l>> ELSE [i \in 1..(n + 1) |-> BadLine]) \o splitlines(Tail(lines))

\* ===================================================================== oswe
\* load_jsonl: the loop over enumerate(lines, 1)
RECURSIVE oswe_load_from(_, _, _)
oswe_load_from(lines, idx, data) ==
    IF idx > Len(lines) THEN [err |-> "", line |-> 0, data |-> data]
    ELSE IF lines[idx].k = "blank" THEN oswe_load_from(lines, idx + 1, data)
    ELSE IF lines[idx].k = "bad" THEN [err |-> "ValueError", line |-> idx, data |-> <<>>]
    ELSE oswe_load_from(lines, idx + 1, Append(data, lines[idx].v))

load_jsonl(lines) == oswe_load_from(lines, 1, <<>>)

\* dict(rec): a copy of a dict, {} for the empty array, TypeError for a number
DictCopyFails(v) == v.t = "num"
DictCopy(v) == IF v.t = "obj" THEN v.r ELSE [f \in {} |-> None]

\* mutant: the wrong end is stripped
oswe_fix_one_lstrip(v) ==
    LET rec_copy == DictCopy(v)
        ua == Get(rec_copy, "useragent", None)
        cleaned == lstrip(ua.s, {SPACE})
    IN IF IsStr(ua) /\ cleaned # ua.s
       THEN [rec |-> Put(rec_copy, "useragent", Str(cleaned)), changed |-> TRUE, arg |-> v]
       ELSE [rec |-> rec_copy, changed |-> FALSE, arg |-> v]

\* one iteration of the loop of fix_useragents on a value dict() accepts; the
\* assignment goes to rec_copy, so arg, the element of the list passed in, is
\* left as it was
oswe_fix_one(v) ==
    LET rec_copy == DictCopy(v)
        ua == Get(rec_copy, "useragent", None)
        cleaned == rstrip(ua.s, {SPACE})
    IN IF IsStr(ua) /\ cleaned # ua.s
       THEN [rec |-> Put(rec_copy, "useragent", Str(cleaned)), changed |-> TRUE, arg |-> v]
       ELSE [rec |-> rec_copy, changed |-> FALSE, arg |-> v]

AsObjs(recs) == [i \in 1..Len(recs) |-> Obj(recs[i])]

RECURSIVE oswe_fix_from(_, _, _, _)
oswe_fix_from(records, i, fixed_records, fixed_count) ==
    IF i > Len(records)
    THEN [err |-> "", recs |-> fixed_records, fixed |-> fixed_count,
          args |-> [k \in DOMAIN records |-> oswe_fix_one(records[k]).arg]]
    ELSE IF DictCopyFails(records[i])
         THEN [err |-> "TypeError", recs |-> <<>>, fixed |-> 0, args |-> <<>>]
    ELSE LET one == oswe_fix_one(records[i])
         IN oswe_fix_from(records, i + 1, Append(fixed_records, one.rec),
                          fixed_count + (IF one.changed THEN 1 ELSE 0))

\* mutant: no dict(rec); the elements of the list passed in are stripped in place
fix_useragents_inplace(records) ==
    LET r == oswe_fix_from(records, 1, <<>>, 0) IN [r EXCEPT !.args = AsObjs(r.recs)]

\* recs is the list returned, args the list passed in as the call leaves it
fix_useragents(records) == oswe_fix_from(records, 1, <<>>, 0)

\* compute_stats raises AttributeError on an element that has no .get
StatsFails(records) == \E i \in 1..Len(records) : ~IsDict(records[i])

\* compute_stats on a list of dicts (given here as JSON objects)
compute_stats(records) ==
    LET ualist == [i \in 1..Len(records) |-> Get(records[i].r, "useragent", EmptyStr)]
        strs == {ualist[i].s : i \in {j \in 1..Len(records) : IsStr(ualist[j])}}
    IN [total |-> Len(records),
        trailing |-> Cardinality({i \in DOMAIN ualist :
                                     IsStr(ualist[i]) /\ endswith(ualist[i].s, SPACE)}),
        leading |-> Cardinality({i \in DOMAIN ualist :
                                    IsStr(ualist[i]) /\ startswith(ualist[i].s, SPACE)}),
        double_space |-> Cardinality({i \in DOMAIN ualist :
                                         IsStr(ualist[i]) /\ HasDoubleSpace(ualist[i].s)}),
        unique |-> Cardinality(strs),
        dups |-> Len(records) - Cardinality(strs)]

\* main of the oswe script: load, stats, fix, stats, save, report, assertions
oswe_main(source) ==
    IF ~source.exists THEN Failed("oswe", "FileNotFoundError", 0)
    ELSE LET loaded == load_jsonl(splitlines(source.lines))
         IN IF loaded.err # "" THEN Failed("oswe", loaded.err, loaded.line)
            ELSE IF StatsFails(loaded.data) THEN Failed("oswe", "AttributeError", 0)
            ELSE LET fx == fix_useragents(loaded.data)
                     stats_after == compute_stats(AsObjs(fx.recs))
                     asserts == stats_after.total = ExpectedTotal /\ stats_after.trailing = 0
                 IN Outcome("oswe", IF asserts THEN "ok" ELSE "AssertionError", 0, TRUE,
                            [total |-> stats_after.total, fixed |-> fx.fixed,
                             trailing |-> stats_after.trailing],
                            AsObjs(fx.recs))

\* mutant: the file is opened with "a" instead of "w"
AppendLines(prior, out) ==
    File((IF prior.exists THEN prior.lines ELSE <<>>)
            \o [i \in 1..Len(out) |-> JsonLine(out[i])],
         Len(out) > 0 \/ (prior.exists /\ prior.nl))

\* save_jsonl and the write loops of gpt and sonnet: every record followed by "\n"
\* (open(path, "w") discards the prior content of the file)
WriteLines(prior, out) ==
    File([i \in 1..Len(out) |-> JsonLine(out[i])], Len(out) > 0)

\* ====================================================================== gpt
\* _clean_record raises AttributeError when the payload has no .get or the
\* useragent value has no .strip
clean_record_fails(v) == ~IsDict(v) \/ ~IsStr(Get(v.r, "useragent", EmptyStr))

\* mutant: updated starts as an empty dict instead of a copy of the record
clean_record_fresh(v) ==
    LET ua == Get(v.r, "useragent", EmptyStr)
        cleaned == strip(ua.s, PyWhitespace)
    IN [rec |-> [f \in {"useragent"} |-> Str(cleaned)], changed |-> cleaned # ua.s, arg |-> v]

\* updated = dict(record) takes the assignment; arg is the record passed in as
\* the call leaves it
_clean_record(v) ==
    LET ua == Get(v.r, "useragent", EmptyStr)
        cleaned == strip(ua.s, PyWhitespace)
    IN [rec |-> Put(v.r, "useragent", Str(cleaned)), changed |-> cleaned # ua.s, arg |-> v]

\* mutant: records.append sits under "if changed"
RECURSIVE gpt_loop_drop(_, _, _, _)
gpt_loop_drop(lines, idx, records, fixed_count) ==
    IF idx > Len(lines) THEN [err |-> "", line |-> 0, recs |-> records, fixed |-> fixed_count]
    ELSE IF lines[idx].k = "blank" THEN gpt_loop_drop(lines, idx + 1, records, fixed_count)
    ELSE IF lines[idx].k = "bad"
         THEN [err |-> "ValueError", line |-> idx, recs |-> <<>>, fixed |-> 0]
    ELSE IF clean_record_fails(lines[idx].v)
         THEN [err |-> "AttributeError", line |-> 0, recs |-> <<>>, fixed |-> 0]
    ELSE LET c == _clean_record(lines[idx].v)
         IN IF c.changed
            THEN gpt_loop_drop(lines, idx + 1, Append(records, c.rec), fixed_count + 1)
            ELSE gpt_loop_drop(lines, idx + 1, records, fixed_count)

\* the read loop of fix_file
RECURSIVE gpt_loop(_, _, _, _)
gpt_loop(lines, idx, records, fixed_count) ==
    IF idx > Len(lines) THEN [err |-> "", line |-> 0, recs |-> records, fixed |-> fixed_count]
    ELSE IF lines[idx].k = "blank" THEN gpt_loop(lines, idx + 1, records, fixed_count)
    ELSE IF lines[idx].k = "bad"
         THEN [err |-> "ValueError", line |-> idx, recs |-> <<>>, fixed |-> 0]
    ELSE IF clean_record_fails(lines[idx].v)
         THEN [err |-> "AttributeError", line |-> 0, recs |-> <<>>, fixed |-> 0]
    ELSE LET c == _clean_record(lines[idx].v)
         IN gpt_loop(lines, idx + 1, Append(records, c.rec),
                     fixed_count + (IF c.changed THEN 1 ELSE 0))

fix_file(source) ==
    IF ~source.exists THEN Failed("gpt", "FileNotFoundError", 0)
    ELSE LET lp == gpt_loop(splitlines(source.lines), 1, <<>>, 0)
             total == Len(lp.recs)
         IN IF lp.err # "" THEN Failed("gpt", lp.err, lp.line)
            ELSE Outcome("gpt", "ok", 0, TRUE,
                         [total |-> total, fixed |-> lp.fixed, unchanged |-> total - lp.fixed],
                         AsObjs(lp.recs))

\* ===================================================================== opus
\* data.get / ua.endswith raise AttributeError, which the except clause (it
\* catches json.JSONDecodeError only) lets through
opus_fails(v) == ~IsDict(v) \/ ~IsStr(Get(v.r, "useragent", EmptyStr))

\* mutant: the wrong end is stripped (lstrip() instead of rstrip())
opus_fix_one_lstrip(v) ==
    LET ua == Get(v.r, "useragent", EmptyStr)
    IN IF endswith(ua.s, SPACE)
       THEN [rec |-> Put(v.r, "useragent", Str(lstrip(ua.s, PyWhitespace))), changed |-> TRUE]
       ELSE [rec |-> v.r, changed |-> FALSE]

\* the body of the try block for one parsed line
opus_fix_one(v) ==
    LET ua == Get(v.r, "useragent", EmptyStr)
    IN IF endswith(ua.s, SPACE)
       THEN [rec |-> Put(v.r, "useragent", Str(rstrip(ua.s, PyWhitespace))), changed |-> TRUE]
       ELSE [rec |-> v.r, changed |-> FALSE]

RECURSIVE opus_loop(_, _, _, _)
opus_loop(lines, line_num, stats, fixed_lines) ==
    IF line_num > Len(lines) THEN [err |-> "", stats |-> stats, recs |-> fixed_lines]
    ELSE IF lines[line_num].k = "blank" THEN opus_loop(lines, line_num + 1, stats, fixed_lines)
    ELSE IF lines[line_num].k = "bad"
         THEN opus_loop(lines, line_num + 1, [stats EXCEPT !.errors = @ + 1], fixed_lines)
    ELSE IF opus_fails(lines[line_num].v) THEN [err |-> "AttributeError", stats |-> stats, recs |-> <<>>]
    ELSE LET one == opus_fix_one(lines[line_num].v)
             st == IF one.changed
                   THEN [stats EXCEPT !.total = @ + 1, !.fixed = @ + 1]
                   ELSE [stats EXCEPT !.total = @ + 1, !.unchanged = @ + 1]
         IN opus_loop(lines, line_num + 1, st, Append(fixed_lines, one.rec))

\* f.write('\n'.join(fixed_lines)): no newline after the last record
JoinLines(prior, out) ==
    File([i \in 1..Len(out) |-> JsonLine(out[i])], FALSE)

opus_fix_browsers_json(source) ==
    IF ~source.exists THEN Failed("opus", "FileNotFoundError", 0)
    ELSE LET lp == opus_loop(source.lines, 1,
                             [total |-> 0, fixed |-> 0, unchanged |-> 0, errors |-> 0], <<>>)
         IN IF lp.err # "" THEN Failed("opus", lp.err, 0)
            ELSE Outcome("opus", "ok", 0, TRUE, lp.stats, AsObjs(lp.recs))

\* =================================================================== sonnet
sonnet_fails(v) == ~IsDict(v) \/ ~IsStr(Get(v.r, "useragent", EmptyStr))

\* mutant: original_ua[:-1] on a trailing whitespace character instead of rstrip()
sonnet_fix_one_single(v) ==
    LET original_ua == Get(v.r, "useragent", EmptyStr)
        fixed_ua == rstrip_one(original_ua.s, PyWhitespace)
    IN IF original_ua.s # fixed_ua
       THEN [rec |-> Put(v.r, "useragent", Str(fixed_ua)), changed |-> TRUE]
       ELSE [rec |-> v.r, changed |-> FALSE]

sonnet_fix_one(v) ==
    LET original_ua == Get(v.r, "useragent", EmptyStr)
        fixed_ua == rstrip(original_ua.s, PyWhitespace)
    IN IF original_ua.s # fixed_ua
       THEN [rec |-> Put(v.r, "useragent", Str(fixed_ua)), changed |-> TRUE]
       ELSE [rec |-> v.r, changed |-> FALSE]

RECURSIVE sonnet_loop(_, _, _, _)
sonnet_loop(lines, i, fixed_data, fixed_count) ==
    IF i > Len(lines) THEN [err |-> "", recs |-> fixed_data, fixed |-> fixed_count]
    ELSE IF lines[i].k = "blank" THEN sonnet_loop(lines, i + 1, fixed_data, fixed_count)
    ELSE IF lines[i].k = "bad" THEN [err |-> "JSONDecodeError", recs |-> <<>>, fixed |-> 0]
    ELSE IF sonnet_fails(lines[i].v) THEN [err |-> "AttributeError", recs |-> <<>>, fixed |-> 0]
    ELSE LET one == sonnet_fix_one(lines[i].v)
         IN sonnet_loop(lines, i + 1, Append(fixed_data, one.rec),
                        fixed_count + (IF one.changed THEN 1 ELSE 0))

sonnet_fix_browsers_json(source) ==
    IF ~source.exists THEN Failed("sonnet", "FileNotFoundError", 0)
    ELSE LET total_count == Len(source.lines)
             lp == sonnet_loop(source.lines, 1, <<>>, 0)
         IN IF lp.err # "" THEN Failed("sonnet", lp.err, 0)
            ELSE Outcome("sonnet", "ok", 0, TRUE,
                         [total |-> total_count, fixed |-> lp.fixed,
                          unchanged |-> total_count - lp.fixed],
                         AsObjs(lp.recs))

\* ======================================================== validation suites
\* The datasets the test scripts are run on.  A record carries the seven
\* fields of browsers.json; a categorical value is kept as one symbol.
Word(w) == Str(<<w>>)

VGood ==
    [f \in {"useragent", "percent", "type", "system", "browser", "version", "os"} |->
        CASE f = "useragent" -> Str(<<"a">>)
          [] f = "percent" -> Num(1)
          [] f = "type" -> Word("pc")
          [] f = "system" -> Word("x")
          [] f = "browser" -> Word("chrome")
          [] f = "version" -> Num(1)
          [] f = "os" -> Word("win10")]

Without(r, key) == [f \in (DOMAIN r) \ {key} |-> r[f]]

\* one blemish each: trailing space, leading space, trailing tab, DEL, an inner
\* U+2028, an inner run of two spaces
VStrings ==
    {<<"a", SPACE>>, <<SPACE, "a">>, <<"a", TAB>>, <<"a", DEL>>, <<"a", LSEP, "a">>,
     <<"a", SPACE, SPACE, "a">>}

\* the good record, and records with one thing wrong: the useragent string, a
\* useragent that is a number, a type outside the domain, no type at all
VRecords ==
    {VGood}
    \cup {Put(VGood, "useragent", Str(s)) : s \in VStrings}
    \cup {Put(VGood, "useragent", Num(7)), Put(VGood, "type", Word("desktop")),
          Without(VGood, "type")}

VLineValues ==
    {BlankLine, WsLine, BadLine, JsonLine(Num(5))} \cup {JsonLine(Obj(r)) : r \in VRecords}

VFiles ==
    {File(ls, Len(ls) > 0) : ls \in UNION {[1..n -> VLineValues] : n \in 0..MaxLines}}

TrailLine == JsonLine(Obj(Put(VGood, "useragent", Str(<<"a", SPACE>>))))

\* the original data file the fixed one is compared with
VOriginals ==
    {NoFile, File(<<JsonLine(Obj(VGood))>>, TRUE), File(<<TrailLine>>, TRUE)}

\* ------------------------------------------------------------ blank lines
\* mutant: not line
IsEmptyText(l) == l.k = "blank" /\ l.ws = <<>>
\* not line.strip()
IsBlankText(l) == l.k = "blank" /\ strip(l.ws, PyWhitespace) = <<>>

\* ------------------------------------------------------------------ loaders
\* the loop shared by the loaders of the test scripts; on_bad is the exception
\* a line that does not parse raises, or "skip" when the loader drops it
RECURSIVE load_loop(_, _, _, _)
load_loop(lines, idx, data, on_bad) ==
    IF idx > Len(lines) THEN [status |-> "ok", line |-> 0, data |-> data]
    ELSE IF IsBlankText(lines[idx]) THEN load_loop(lines, idx + 1, data, on_bad)
    ELSE IF lines[idx].k # "json"
         THEN IF on_bad = "skip" THEN load_loop(lines, idx + 1, data, on_bad)
              ELSE [status |-> on_bad, line |-> idx, data |-> <<>>]
    ELSE load_loop(lines, idx + 1, Append(data, lines[idx].v), on_bad)

NotFound == [status |-> "FileNotFoundError", line |-> 0, data |-> <<>>]

\* oswe fixed_version.load_jsonl on a path
oswe_load_path(f) ==
    IF ~f.exists THEN NotFound
    ELSE LET r == load_jsonl(splitlines(f.lines))
         IN [status |-> IF r.err = "" THEN "ok" ELSE r.err, line |-> r.line, data |-> r.data]

\* oswe tests.load_jsonl
oswe_tests_load_jsonl(f) ==
    IF ~f.exists THEN NotFound ELSE load_loop(f.lines, 1, <<>>, "AssertionError")

\* gpt tests.load_jsonl
gpt_tests_load_jsonl(f) ==
    IF ~f.exists THEN NotFound ELSE load_loop(splitlines(f.lines), 1, <<>>, "ValueError")

\* opus tests.load_browsers_data
load_browsers_data(f) ==
    IF ~f.exists THEN NotFound ELSE load_loop(f.lines, 1, <<>>, "ValueError")

\* opus test_fix.load_browsers_json
load_browsers_json(f) ==
    IF ~f.exists THEN [status |-> "ok", line |-> 0, data |-> <<>>]
    ELSE load_loop(f.lines, 1, <<>>, "skip")

\* sonnet tests.load_browsers_json
sonnet_load_browsers_json(f) ==
    IF ~f.exists THEN NotFound ELSE load_loop(f.lines, 1, <<>>, "JSONDecodeError")

Loaders == {"oswe", "oswe_tests", "gpt_tests", "opus_tests", "opus_test_fix", "sonnet_tests"}

LoadWith(ld, f) ==
    CASE ld = "oswe" -> oswe_load_path(f)
      [] ld = "oswe_tests" -> oswe_tests_load_jsonl(f)
      [] ld = "gpt_tests" -> gpt_tests_load_jsonl(f)
      [] ld = "opus_tests" -> load_browsers_data(f)
      [] ld = "opus_test_fix" -> load_browsers_json(f)
      [] ld = "sonnet_tests" -> sonnet_load_browsers_json(f)

\* ----------------------------------------------------- data integrity: oswe
Min(a, b) == IF a < b THEN a ELSE b

RECURSIVE ConcatAll(_)
ConcatAll(ss) == IF ss = <<>> THEN <<>> ELSE Head(ss) \o ConcatAll(Tail(ss))

\* one printed or recorded check of a test script
Check(name, passed, detail) == [name |-> name, passed |-> passed, detail |-> detail]

\* a test script's report: load is the loader's status, status "ok" or the
\* exception that ended the script, checks what it reported before that, exit
\* the exit code of the script run as a program
SuiteReport(op, impl, f, load, status, checks, exit) ==
    [op |-> op, impl |-> impl, file |-> f, load |-> load, status |-> status,
     checks |-> checks, exit |-> exit]

\* tests.compute_stats of oswe: AttributeError on a record that has no .get
tests_compute_stats(records) ==
    LET uas == [i \in DOMAIN records |-> Get(records[i].r, "useragent", EmptyStr)]
        strs == {i \in DOMAIN uas : IsStr(uas[i])}
        unique == Cardinality({uas[i].s : i \in strs})
    IN [total |-> Len(records),
        trailing |-> Cardinality({i \in strs : endswith(uas[i].s, SPACE)}),
        leading |-> Cardinality({i \in strs : startswith(uas[i].s, SPACE)}),
        double_space |-> Cardinality({i \in strs : HasDoubleSpace(uas[i].s)}),
        unique |-> unique,
        dups |-> Len(uas) - unique]

EXPECTED_DUPLICATES == 83
EXPECTED_BROWSERS ==
    {Word("chrome"), Word("edge"), Word("firefox"), Word("safari"), Word("DuckDuckGo Mobile")}
EXPECTED_OSES == {Word("android"), Word("ios"), Word("linux"), Word("macos"), Word("win10")}
EXPECTED_TYPES == {Word("pc"), Word("mobile"), Word("tablet")}

\* REQUIRED_FIELDS, in the order of the dict
REQUIRED_FIELDS == <<"useragent", "percent", "type", "system", "browser", "version", "os">>
NumberFields == {"percent", "version"}
IsNum(v) == v.t = "num"
HasType(field, v) == IF field \in NumberFields THEN IsNum(v) ELSE IsStr(v)

\* the entries one record adds to missing_or_type_errors
field_errors(idx, rec) ==
    ConcatAll([k \in DOMAIN REQUIRED_FIELDS |->
        LET field == REQUIRED_FIELDS[k]
        IN IF field \notin DOMAIN rec THEN <<[idx |-> idx, field |-> field, what |-> "missing"]>>
           ELSE IF ~HasType(field, rec[field])
                THEN <<[idx |-> idx, field |-> field, what |-> "type"]>>
           ELSE <<>>])

\* the exception the value-domain loop raises on one record ("" for none):
\* rec["browser"], rec["os"], rec["type"], rec["percent"], float(...)
domain_raises(rec) ==
    IF ~({"browser", "os", "type", "percent"} \subseteq DOMAIN rec) THEN "KeyError"
    ELSE IF IsStr(rec["percent"]) THEN "ValueError"
    ELSE IF ~IsNum(rec["percent"]) THEN "TypeError"
    ELSE ""

\* the entries one record adds to bad_domain
domain_errors(idx, rec) ==
    (IF rec["browser"] \notin EXPECTED_BROWSERS
        THEN <<[idx |-> idx, field |-> "browser", value |-> rec["browser"]]>> ELSE <<>>)
    \o (IF rec["os"] \notin EXPECTED_OSES
        THEN <<[idx |-> idx, field |-> "os", value |-> rec["os"]]>> ELSE <<>>)
    \o (IF rec["type"] \notin EXPECTED_TYPES
        THEN <<[idx |-> idx, field |-> "type", value |-> rec["type"]]>> ELSE <<>>)
    \o (IF ~(0 <= rec["percent"].n /\ rec["percent"].n <= 100)
        THEN <<[idx |-> idx, field |-> "percent", value |-> rec["percent"]]>> ELSE <<>>)

\* tests/test_data_integrity.run of oswe; run as a program it exits 0 unless
\* an exception escapes
oswe_data_integrity_run(f) ==
    LET ld == oswe_tests_load_jsonl(f)
        records == ld.data
    IN IF ld.status # "ok" THEN SuiteReport("integrity", "oswe", f, ld.status, ld.status, <<>>, 1)
       ELSE IF StatsFails(records)
            THEN SuiteReport("integrity", "oswe", f, "ok", "AttributeError", <<>>, 1)
       ELSE
       LET stats == tests_compute_stats(records)
           c1 == Check("count", stats.total = ExpectedTotal, stats.total)
           errs == ConcatAll([i \in DOMAIN records |-> field_errors(i, records[i].r)])
           c2 == Check("fields", errs = <<>>, SubSeq(errs, 1, Min(5, Len(errs))))
           raising == {i \in DOMAIN records : domain_raises(records[i].r) # ""}
       IN IF raising # {}
          THEN SuiteReport("integrity", "oswe", f, "ok",
                           domain_raises(records[CHOOSE i \in raising : \A j \in raising : i <= j].r),
                           <<c1, c2>>, 1)
          ELSE
          LET bad == ConcatAll([i \in DOMAIN records |-> domain_errors(i, records[i].r)])
              c3 == Check("domain", bad = <<>>,
                          [count |-> Len(bad), entries |-> SubSeq(bad, 1, Min(5, Len(bad)))])
              c4 == Check("duplicates", stats.dups = EXPECTED_DUPLICATES, stats.dups)
          IN SuiteReport("integrity", "oswe", f, "ok", "ok", <<c1, c2, c3, c4>>, 0)

\* ------------------------------------------------------ data integrity: gpt
\* all(...) over per-record outcomes "T", "F" or "X" (the test raised): the
\* first outcome that is not "T" decides
AllOf(outs) ==
    LET rest == {i \in DOMAIN outs : outs[i] # "T"}
    IN IF rest = {} THEN "T" ELSE outs[CHOOSE i \in rest : \A j \in rest : i <= j]

TF(b) == IF b THEN "T" ELSE "F"

required_keys == {"useragent", "browser", "version", "os", "type", "system", "percent"}

\* required_fields_present(r): r.keys() raises on a record that is no dict
required_fields_present(v) ==
    IF ~IsDict(v) THEN "X" ELSE TF(required_keys \subseteq DOMAIN v.r)

nonempty_string_ua(v) ==
    IF ~IsDict(v) THEN "X"
    ELSE LET ua == Get(v.r, "useragent", EmptyStr) IN TF(IsStr(ua) /\ ua.s # <<>>)

numeric_fields(v) ==
    IF ~IsDict(v) THEN "X"
    ELSE TF(IsNum(Get(v.r, "percent", None)) /\ IsNum(Get(v.r, "version", None)))

categorical_strings(v) ==
    IF ~IsDict(v) THEN "X"
    ELSE TF(\A key \in {"browser", "os", "system", "type"} : IsStr(Get(v.r, key, EmptyStr)))

\* tests/test_data_integrity.run of gpt, run as a program
gpt_data_integrity_run(f) ==
    LET ld == gpt_tests_load_jsonl(f)
        records == ld.data
    IN IF ld.status # "ok" THEN SuiteReport("integrity", "gpt", f, ld.status, ld.status, <<>>, 1)
       ELSE
       LET r2 == AllOf([i \in DOMAIN records |-> required_fields_present(records[i])])
           r3 == AllOf([i \in DOMAIN records |-> nonempty_string_ua(records[i])])
           r4 == AllOf([i \in DOMAIN records |-> numeric_fields(records[i])])
           r5 == AllOf([i \in DOMAIN records |-> categorical_strings(records[i])])
           checks == <<Check("count", Len(records) = ExpectedTotal, Len(records)),
                       Check("required", r2 = "T", None),
                       Check("useragents", r3 = "T", None),
                       Check("numeric", r4 = "T", None),
                       Check("categorical", r5 = "T", None)>>
           versions == {i \in DOMAIN records : IsDict(records[i]) /\ IsNum(Get(records[i].r, "version", None))}
           percents == {i \in DOMAIN records : IsDict(records[i]) /\ IsNum(Get(records[i].r, "percent", None))}
           passed == \A k \in DOMAIN checks : checks[k].passed
       IN IF "X" \in {r2, r3, r4, r5}
          THEN SuiteReport("integrity", "gpt", f, "ok", "AttributeError", <<>>, 1)
          ELSE IF StatsFails(records)
          THEN SuiteReport("integrity", "gpt", f, "ok", "AttributeError", checks, 1)
          ELSE IF versions = {} \/ percents = {}
          THEN SuiteReport("integrity", "gpt", f, "ok", "StatisticsError", checks, 1)
          ELSE SuiteReport("integrity", "gpt", f, "ok", "ok", checks, IF passed THEN 0 ELSE 1)

\* ----------------------------------------------------- data integrity: opus
required_fields == {"useragent", "browser", "version", "os", "type", "percent", "system"}
valid_types == {Word("pc"), Word("mobile"), Word("tablet")}

\* the number of entries one record adds to type_errors
type_error_count(rec) ==
    Cardinality({fld \in {"useragent", "browser", "os", "type"} : ~IsStr(Get(rec, fld, None))})
    + Cardinality({fld \in {"version", "percent"} : ~IsNum(Get(rec, fld, None))})

\* tests/test_data_integrity.test_data_integrity of opus, run as a program:
\* the checks are added to a SimpleTestRunner, and the function ends with
\* "assert success"
test_data_integrity(f) ==
    LET ld == load_browsers_data(f)
        data == ld.data
    IN IF ld.status # "ok"
       THEN SuiteReport("integrity", "opus", f, ld.status, "ok",
                        <<Check("Load Data File", FALSE, ld.status)>>, 0)
       ELSE
       LET c1 == Check("User Agent Count", Len(data) = ExpectedTotal, Len(data))
           missing_fields_count ==
               Cardinality({<<i, fld>> \in (DOMAIN data) \X required_fields : fld \notin DOMAIN data[i].r})
           c2 == Check("Required Fields Present", missing_fields_count = 0, missing_fields_count)
           type_errors == [i \in DOMAIN data |-> type_error_count(data[i].r)]
           n_type_errors == Cardinality({<<i, k>> \in (DOMAIN data) \X (1..6) : k <= type_errors[i]})
           c3 == Check("Correct Data Types", n_type_errors = 0, n_type_errors)
           empty_uas == {i \in DOMAIN data :
                            strip(Get(data[i].r, "useragent", EmptyStr).s, PyWhitespace) = <<>>}
           c4 == Check("Non-Empty User Agents", empty_uas = {}, Cardinality(empty_uas))
           invalid_types == {i \in DOMAIN data : Get(data[i].r, "type", None) \notin valid_types}
           c5 == Check("Valid Browser Types", invalid_types = {},
                       [count |-> Cardinality(invalid_types), entries |-> <<>>])
           checks == <<c1, c2, c3, c4, c5>>
           success == \A k \in DOMAIN checks : checks[k].passed
       IN IF StatsFails(data)
          THEN SuiteReport("integrity", "opus", f, "ok", "TypeError", <<c1>>, 1)
          ELSE IF \E i \in DOMAIN data : ~IsStr(Get(data[i].r, "useragent", EmptyStr))
          THEN SuiteReport("integrity", "opus", f, "ok", "AttributeError", <<c1, c2, c3>>, 1)
          ELSE IF ~success
          THEN SuiteReport("integrity", "opus", f, "ok", "AssertionError", checks, 1)
          ELSE SuiteReport("integrity", "opus", f, "ok", "ok", checks, 0)

\* ---------------------------------------------------- quick verification
\* ua.endswith(' ') on item.get('useragent', '') raises AttributeError when the
\* item has no .get or the value no .endswith
TrailingRaises(data) ==
    \E i \in DOMAIN data : ~IsDict(data[i]) \/ ~IsStr(Get(data[i].r, "useragent", EmptyStr))

\* the number of records whose useragent ends with a space
count_trailing(data) ==
    Cardinality({i \in DOMAIN data : endswith(Get(data[i].r, "useragent", EmptyStr).s, SPACE)})

\* what the httpx library does to the run: not installed, or installed and
\* accepting every sampled user agent, or installed and rejecting one
HttpxVerdicts == {"absent", "accepts", "rejects"}

\* test_fix.main of opus, run as a program
opus_test_fix_main(original, fixed, httpx) ==
    LET fixed_data == load_browsers_json(fixed).data
        original_data == load_browsers_json(original).data
    IN IF fixed_data = <<>>
       THEN SuiteReport("verify", "opus", fixed, "ok", "ok", <<>>, 1)
       ELSE IF TrailingRaises(fixed_data) \/ TrailingRaises(original_data)
       THEN SuiteReport("verify", "opus", fixed, "ok", "AttributeError", <<>>, 1)
       ELSE
       LET with_trailing == count_trailing(fixed_data)
           c1 == Check("Trailing Space Check", with_trailing = 0, with_trailing)
           c2 == Check("Data Integrity", Len(fixed_data) = ExpectedTotal, Len(fixed_data))
           c3 == Check("httpx Compatibility", httpx = "accepts", httpx)
           all_pass == c1.passed /\ (httpx # "absent" => c3.passed)
       IN SuiteReport("verify", "opus", fixed, "ok", "ok",
                      IF httpx = "absent" THEN <<c1, c2>> ELSE <<c1, c2, c3>>,
                      IF all_pass THEN 0 ELSE 1)

\* test_fix.main of gpt, run as a program
gpt_test_fix_main(original_file, fixed_file) ==
    IF ~fixed_file.exists
    THEN SuiteReport("verify", "gpt", fixed_file, "FileNotFoundError", "ok", <<>>, 1)
    ELSE
    LET lo == gpt_tests_load_jsonl(original_file)
        lf == gpt_tests_load_jsonl(fixed_file)
        original == lo.data
        fixed == lf.data
    IN IF lo.status # "ok"
       THEN SuiteReport("verify", "gpt", fixed_file, lo.status, lo.status, <<>>, 1)
       ELSE IF lf.status # "ok"
       THEN SuiteReport("verify", "gpt", fixed_file, lf.status, lf.status, <<>>, 1)
       ELSE IF TrailingRaises(original) \/ TrailingRaises(fixed)
       THEN SuiteReport("verify", "gpt", fixed_file, "ok", "AttributeError", <<>>, 1)
       ELSE
       LET orig_trailing == count_trailing(original)
           fixed_trailing == count_trailing(fixed)
           checks == <<Check("User agent count matches original (165)",
                             Len(fixed) = ExpectedTotal, Len(fixed)),
                       Check("Trailing spaces removed", fixed_trailing = 0, fixed_trailing),
                       Check("No data loss", Len(fixed) = Len(original), Len(original)),
                       Check("Trailing space reduction", fixed_trailing < orig_trailing,
                             orig_trailing)>>
           success == \A k \in DOMAIN checks : checks[k].passed
       IN SuiteReport("verify", "gpt", fixed_file, "ok", "ok", checks, IF success THEN 0 ELSE 1)

\* ------------------------------------------- exit codes of the fix commands
\* oswe: main() is called bare; only an escaping exception makes the exit
\* code non-zero
oswe_exit(res) == IF res.status = "ok" THEN 0 ELSE 1

\* gpt: main() catches every exception of fix_file, prints "[X] Fix failed"
\* and returns; the script ends with a bare main()
gpt_exit(res) == 0

\* verify_fix of opus: JSONDecodeError is caught (valid_json = False), a value
\* without .get or .endswith raises AttributeError
verify_fix(fixed) ==
    LET vals == [i \in {j \in DOMAIN fixed.lines : fixed.lines[j].k = "json"} |-> fixed.lines[i].v]
        raises == \E i \in DOMAIN vals :
                      ~IsDict(vals[i]) \/ ~IsStr(Get(vals[i].r, "useragent", EmptyStr))
    IN [raises |-> raises,
        total_uas |-> Cardinality(DOMAIN vals),
        with_trailing_spaces |->
            IF raises THEN 0
            ELSE Cardinality({i \in DOMAIN vals :
                                 endswith(Get(vals[i].r, "useragent", EmptyStr).s, SPACE)}),
        valid_json |-> \A j \in DOMAIN fixed.lines : fixed.lines[j].k # "bad"]

\* opus: main() returns early when the original is missing (verifying the
\* fixed file if there is one); after a fix the success report divides by
\* stats['total_uas']
opus_exit(original, before, res, after) ==
    IF ~original.exists
    THEN IF before.exists /\ verify_fix(before).raises THEN 1 ELSE 0
    ELSE IF res.status # "ok" THEN 1
    ELSE LET v == verify_fix(after)
         IN IF v.raises THEN 1
            ELSE IF v.with_trailing_spaces = 0 /\ v.valid_json /\ res.stats.total = 0 THEN 1
            ELSE 0

\* sonnet: sys.exit(1) when the input is missing, sys.exit(main()) otherwise
sonnet_exit(res) == IF res.status = "ok" THEN 0 ELSE 1

\* --------------------------------------------------- regression comparison
\* a comparison's report: passed is the verdict on the trailing-space counts
\* of the fixed and the original file
RegressionReport(impl, status, checks, passed, exit) ==
    [op |-> "regression", impl |-> impl, status |-> status, checks |-> checks,
     passed |-> passed, exit |-> exit]

\* count_space_issues of gpt's tests package
count_space_issues(records) ==
    LET ua(i) == Get(records[i].r, "useragent", EmptyStr).s
    IN [trailing |-> Cardinality({i \in DOMAIN records : endswith(ua(i), SPACE)}),
        leading |-> Cardinality({i \in DOMAIN records : startswith(ua(i), SPACE)}),
        double |-> Cardinality({i \in DOMAIN records : HasDoubleSpace(ua(i))})]

\* tests/test_no_trailing_spaces.run of gpt, run as a program
gpt_no_trailing_run(original_file, fixed_file) ==
    LET lf == gpt_tests_load_jsonl(fixed_file)
        lo == gpt_tests_load_jsonl(original_file)
    IN IF lf.status # "ok" THEN RegressionReport("gpt", lf.status, <<>>, FALSE, 1)
       ELSE IF lo.status # "ok" THEN RegressionReport("gpt", lo.status, <<>>, FALSE, 1)
       ELSE IF TrailingRaises(lf.data) \/ TrailingRaises(lo.data)
       THEN RegressionReport("gpt", "AttributeError", <<>>, FALSE, 1)
       ELSE
       LET fixed == count_space_issues(lf.data)
           orig == count_space_issues(lo.data)
           checks == <<Check("No trailing spaces remain", fixed.trailing = 0, fixed.trailing),
                       Check("No leading spaces remain", fixed.leading = 0, fixed.leading),
                       Check("No double spaces inside strings", fixed.double = 0, fixed.double),
                       Check("Trailing space count decreased",
                             fixed.trailing < orig.trailing, orig.trailing)>>
       IN RegressionReport("gpt", "ok", checks, checks[1].passed /\ checks[4].passed,
                           IF \A k \in DOMAIN checks : checks[k].passed THEN 0 ELSE 1)

\* sum(1 for ua in uas if ua != ua.rstrip())
with_spaces(data) ==
    Cardinality({i \in DOMAIN data :
        LET ua == Get(data[i].r, "useragent", EmptyStr).s IN ua # rstrip(ua, PyWhitespace)})

\* test_fix_effectiveness of sonnet's tests/test_no_trailing_spaces.py
test_fix_effectiveness(original_file, fixed_file) ==
    LET lf == sonnet_load_browsers_json(fixed_file)
        lo == sonnet_load_browsers_json(original_file)
    IN IF lf.status # "ok" THEN RegressionReport("sonnet", lf.status, <<>>, FALSE, 1)
       ELSE IF StatsFails(lf.data) THEN RegressionReport("sonnet", "AttributeError", <<>>, FALSE, 1)
       ELSE IF ~original_file.exists
       THEN RegressionReport("sonnet", "ok", <<Check("Fix Effectiveness", TRUE, None)>>, TRUE, 0)
       ELSE IF lo.status # "ok" THEN RegressionReport("sonnet", lo.status, <<>>, FALSE, 1)
       ELSE IF TrailingRaises(lo.data) \/ TrailingRaises(lf.data)
       THEN RegressionReport("sonnet", "AttributeError", <<>>, FALSE, 1)
       ELSE
       LET fixed_with_spaces == with_spaces(lf.data)
           passed == fixed_with_spaces = 0
       IN RegressionReport("sonnet", "ok",
                           <<Check("Fix Effectiveness", passed, fixed_with_spaces)>>,
                           passed, IF passed THEN 0 ELSE 1)

\* ------------------------------------------------------ whitespace tests
\* tests/test_no_trailing_spaces.run of oswe, run as a program: the original
\* file is read first when there is one; the script exits 0 unless an
\* exception escapes
EXPECTED_TRAILING_BEFORE == 93

oswe_no_trailing_run(original_file, fixed_file) ==
    LET lo == oswe_tests_load_jsonl(original_file)
        lf == oswe_tests_load_jsonl(fixed_file)
    IN IF original_file.exists /\ lo.status # "ok"
       THEN SuiteReport("whitespace", "oswe", fixed_file, lo.status, lo.status, <<>>, 1)
       ELSE IF original_file.exists /\ StatsFails(lo.data)
       THEN SuiteReport("whitespace", "oswe", fixed_file, "ok", "AttributeError", <<>>, 1)
       ELSE IF lf.status # "ok"
       THEN SuiteReport("whitespace", "oswe", fixed_file, lf.status, lf.status, <<>>, 1)
       ELSE IF StatsFails(lf.data)
       THEN SuiteReport("whitespace", "oswe", fixed_file, "ok", "AttributeError", <<>>, 1)
       ELSE
       LET after_stats == tests_compute_stats(lf.data)
           items == <<Check("No trailing spaces after fix", after_stats.trailing = 0,
                            after_stats.trailing),
                      Check("No leading spaces after fix", after_stats.leading = 0,
                            after_stats.leading),
                      Check("No double spaces in UA strings", after_stats.double_space = 0,
                            after_stats.double_space),
                      Check("Record count preserved", after_stats.total = ExpectedTotal,
                            after_stats.total)>>
           before == IF original_file.exists
                     THEN <<Check("Before-fix trailing spaces",
                                  tests_compute_stats(lo.data).trailing = EXPECTED_TRAILING_BEFORE,
                                  tests_compute_stats(lo.data).trailing)>>
                     ELSE <<>>
       IN SuiteReport("whitespace", "oswe", fixed_file, "ok", "ok", items \o before, 0)

\* main of sonnet's tests/test_no_trailing_spaces.py, run as a program: three
\* tests on the fixed file, each loading it anew, then test_fix_effectiveness
sonnet_no_trailing_main(original_file, fixed_file) ==
    LET lf == sonnet_load_browsers_json(fixed_file)
        useragents == [i \in DOMAIN lf.data |-> Get(lf.data[i].r, "useragent", EmptyStr)]
    IN IF lf.status # "ok"
       THEN SuiteReport("whitespace", "sonnet", fixed_file, lf.status, lf.status, <<>>, 1)
       ELSE IF StatsFails(lf.data) \/ TrailingRaises(lf.data)
       THEN SuiteReport("whitespace", "sonnet", fixed_file, "ok", "AttributeError", <<>>, 1)
       ELSE
       LET trailing == {i \in DOMAIN useragents : endswith(useragents[i].s, SPACE)}
           leading == {i \in DOMAIN useragents : startswith(useragents[i].s, SPACE)}
           untrimmed == {i \in DOMAIN useragents :
                            useragents[i].s # strip(useragents[i].s, PyWhitespace)}
           tests == <<Check("No Trailing Spaces", trailing = {}, Cardinality(trailing)),
                      Check("No Leading Spaces", leading = {}, Cardinality(leading)),
                      Check("Trimmed Strings", untrimmed = {}, Cardinality(untrimmed))>>
           eff == test_fix_effectiveness(original_file, fixed_file)
       IN IF eff.status # "ok"
          THEN SuiteReport("whitespace", "sonnet", fixed_file, "ok", eff.status, tests, 1)
          ELSE LET all == tests \o eff.checks
               IN SuiteReport("whitespace", "sonnet", fixed_file, "ok", "ok", all,
                              IF \A k \in DOMAIN all : all[k].passed THEN 0 ELSE 1)

\* ------------------------------------------------------ httpx compatibility
\* a header test's report: uas the values looked at, verdicts whether each was
\* accepted, fallback whether the script's own validator was used
HeaderReport(impl, status, fallback, uas, verdicts, checks, exit) ==
    [op |-> "httpx", impl |-> impl, status |-> status, fallback |-> fallback,
     uas |-> uas, verdicts |-> verdicts, checks |-> checks, exit |-> exit]

\* _fallback_validator of gpt: TRUE when it returns, FALSE when it raises
\* (a value without .startswith raises AttributeError, caught by run)
_fallback_validator(ua) ==
    /\ IsStr(ua)
    /\ ~(startswith(ua.s, SPACE) \/ endswith(ua.s, SPACE))
    /\ \A i \in DOMAIN ua.s : ua.s[i] \notin ControlChars

\* tests/test_httpx_compatibility.run of gpt, run as a program
gpt_httpx_run(fixed_file, httpx) ==
    LET ld == gpt_tests_load_jsonl(fixed_file)
        records == ld.data
    IN IF ld.status # "ok" THEN HeaderReport("gpt", ld.status, httpx = "absent", <<>>, <<>>, <<>>, 1)
       ELSE IF StatsFails(records)
       THEN HeaderReport("gpt", "AttributeError", httpx = "absent", <<>>, <<>>, <<>>, 1)
       ELSE
       LET uas == [i \in DOMAIN records |-> Get(records[i].r, "useragent", EmptyStr)]
           verdicts == [i \in DOMAIN uas |->
                           IF httpx = "absent" THEN _fallback_validator(uas[i])
                           ELSE httpx = "accepts"]
           no_errors == \A i \in DOMAIN verdicts : verdicts[i]
       IN HeaderReport("gpt", "ok", httpx = "absent", uas, verdicts,
                       <<Check("All user agents accepted", no_errors, None)>>,
                       IF no_errors THEN 0 ELSE 1)

\* simple_header_validator of oswe
simple_header_validator(ua) ==
    /\ IsStr(ua)
    /\ ~(endswith(ua.s, SPACE) \/ startswith(ua.s, SPACE))
    /\ \A i \in DOMAIN ua.s : ua.s[i] \notin {CR, "\n", NUL}

\* tests/test_httpx_compatibility.run of oswe: the loop stops at the first
\* value that is not accepted
oswe_httpx_run(fixed_file, httpx) ==
    LET ld == oswe_tests_load_jsonl(fixed_file)
        records == ld.data
    IN IF ld.status # "ok" THEN HeaderReport("oswe", ld.status, httpx = "absent", <<>>, <<>>, <<>>, 1)
       ELSE IF StatsFails(records)
       THEN HeaderReport("oswe", "AttributeError", httpx = "absent", <<>>, <<>>, <<>>, 1)
       ELSE
       LET uas == [i \in DOMAIN records |-> Get(records[i].r, "useragent", EmptyStr)]
           ok == [i \in DOMAIN uas |->
                     IF httpx = "absent" THEN simple_header_validator(uas[i])
                     ELSE httpx = "accepts"]
           rejected == {i \in DOMAIN ok : ~ok[i]}
           looked == IF rejected = {} THEN Len(uas)
                     ELSE CHOOSE i \in rejected : \A j \in rejected : i <= j
           sample_ok == \A i \in 1..Min(5, Len(uas)) : IsStr(uas[i]) /\ Len(uas[i].s) > 0
       IN HeaderReport("oswe", "ok", httpx = "absent", SubSeq(uas, 1, looked),
                       SubSeq(ok, 1, looked),
                       <<Check("All User-Agent values accepted", rejected = {}, None),
                         Check("Sample UAs are valid strings", sample_ok, None)>>,
                       0)

\* ------------------------------------------------------ all-tests runner: opus
\* what one test function of opus's tests package did when called: the checks
\* its SimpleTestRunner recorded, and the exception it raised ("" when it
\* returned, whatever it returned)
ModuleRun(name, checks, raised) == [name |-> name, checks |-> checks, raised |-> raised]

\* success = runner.run_report(); assert success
Asserted(name, checks) ==
    ModuleRun(name, checks,
              IF \A k \in DOMAIN checks : checks[k].passed THEN "" ELSE "AssertionError")

\* test_data_integrity as a function called by the runner
opus_data_integrity_module(f) ==
    LET r == test_data_integrity(f)
    IN ModuleRun("Data Integrity Tests", r.checks, IF r.status = "ok" THEN "" ELSE r.status)

\* test_no_trailing_spaces of opus: the load and the item.get loop sit in one
\* try block; ua.endswith is outside it
opus_no_trailing_module(f) ==
    LET ld == load_browsers_data(f)
        name == "Trailing Space Tests"
    IN IF ld.status # "ok" \/ StatsFails(ld.data)
       THEN ModuleRun(name, <<Check("Load Data", FALSE, None)>>, "")
       ELSE IF TrailingRaises(ld.data) THEN ModuleRun(name, <<>>, "AttributeError")
       ELSE
       LET useragents == [i \in DOMAIN ld.data |-> Get(ld.data[i].r, "useragent", EmptyStr).s]
           trailing == {i \in DOMAIN useragents : endswith(useragents[i], SPACE)}
           leading == {i \in DOMAIN useragents : startswith(useragents[i], SPACE)}
           excessive == {i \in DOMAIN useragents : HasDoubleSpace(useragents[i])}
           needs_trim == {i \in DOMAIN useragents :
                             useragents[i] # strip(useragents[i], PyWhitespace)}
       IN Asserted(name,
                   <<Check("No Trailing Spaces", trailing = {}, Cardinality(trailing)),
                     Check("No Leading Spaces", leading = {}, Cardinality(leading)),
                     Check("No Excessive Internal Whitespace", excessive = {},
                           Cardinality(excessive)),
                     Check("All UAs Properly Trimmed", needs_trim = {},
                           Cardinality(needs_trim))>>)

\* test_httpx_compatibility of opus: without the library it records the failed
\* installation check and returns True; a rejected value that has no len()
\* raises TypeError in the except block; the InvalidHeader count looks at the
\* type of str(e) and is always 0
opus_httpx_module(f, httpx) ==
    LET ld == load_browsers_data(f)
        name == "httpx Compatibility Tests"
        installed == Check("httpx Installation", httpx # "absent", httpx)
    IN IF httpx = "absent" THEN ModuleRun(name, <<installed>>, "")
       ELSE IF ld.status # "ok" \/ StatsFails(ld.data)
       THEN ModuleRun(name, <<installed, Check("Load Data", FALSE, None)>>, "")
       ELSE
       LET useragents == [i \in DOMAIN ld.data |-> Get(ld.data[i].r, "useragent", EmptyStr)]
           header_failures == {i \in DOMAIN useragents : httpx = "rejects"}
       IN IF \E i \in header_failures : ~IsStr(useragents[i])
          THEN ModuleRun(name, <<installed>>, "TypeError")
          ELSE Asserted(name,
                        <<installed,
                          Check("Header Setting Test", header_failures = {},
                                Cardinality(header_failures)),
                          Check("No InvalidHeader Exceptions", TRUE, 0)>>)

\* test_json_validity of opus
opus_json_validity_module(f) ==
    LET name == "JSON Validity Tests"
    IN IF ~f.exists THEN ModuleRun(name, <<Check("Data File Exists", FALSE, None)>>, "")
       ELSE
       LET parse_errors == {i \in DOMAIN f.lines : f.lines[i].k = "bad"}
           structure_errors == {i \in DOMAIN f.lines :
                                   f.lines[i].k = "json" /\ ~IsDict(f.lines[i].v)}
       IN Asserted(name,
                   <<Check("Data File Exists", TRUE, None),
                     Check("UTF-8 Encoding", TRUE, None),
                     Check("Valid JSONL Format", parse_errors = {}, Cardinality(parse_errors)),
                     Check("Correct Object Structure", structure_errors = {},
                           Cardinality(structure_errors))>>)

\* run_test_module: passed unless the test function raised
run_test_module(m) ==
    [name |-> m.name, passed |-> m.raised = "", error |-> m.raised, checks |-> m.checks]

\* main of opus's tests/test_all.py, run as a program
opus_test_all_main(f, httpx) ==
    LET results == <<run_test_module(opus_data_integrity_module(f)),
                     run_test_module(opus_no_trailing_module(f)),
                     run_test_module(opus_httpx_module(f, httpx)),
                     run_test_module(opus_json_validity_module(f))>>
        failed_count == Cardinality({k \in DOMAIN results : ~results[k].passed})
    IN [op |-> "all", impl |-> "opus", file |-> f, results |-> results,
        exit |-> IF failed_count = 0 THEN 0 ELSE 1]

\* ============================================================ state machine
\* source : the original browsers.json;  target : the fixed browsers.json of
\*          the project whose script is run (every script has its own)
\* phase  : "edit" while the data file is prepared, "ran" after the first run,
\*          "promoted" once the fixed file was made the input, "done" after
\*          the second run
\* hist   : one entry per run so far, oldest first: the source it read, the
\*          target before it, its outcome, the target after it
\* report : what the last loader or test script run reported
VARIABLES source, target, phase, hist, report

vars == <<source, target, phase, hist, report>>

NoReport == [op |-> "none"]

GarbageFile == File(<<BadLine>>, TRUE)

Init ==
    /\ source = File(<<>>, FALSE)
    /\ target \in {NoFile, GarbageFile}
    /\ phase = "edit"
    /\ hist = <<>>
    /\ report = NoReport

\* the data file is prepared before any script runs
AppendLine(l) ==
    /\ phase = "edit"
    /\ source.exists
    /\ Len(source.lines) < MaxLines
    /\ source' = File(Append(source.lines, l), TRUE)
    /\ UNCHANGED <<target, phase, hist, report>>

RemoveSource ==
    /\ phase = "edit"
    /\ source.exists
    /\ source.lines = <<>>
    /\ source' = NoFile
    /\ UNCHANGED <<target, phase, hist, report>>

\* one run of a script: its outcome, the target file it leaves and the exit
\* code of the process
Run(res, written_file, exit) ==
    /\ phase # "done"
    /\ hist # <<>> => hist[1].res.impl = res.impl
    /\ target' = IF res.written THEN written_file ELSE target
    /\ hist' = Append(hist, [src |-> source, before |-> target, res |-> res,
                             after |-> target', exit |-> exit])
    /\ phase' = IF phase = "edit" THEN "ran" ELSE "done"
    /\ UNCHANGED <<source, report>>

RunOswe ==
    LET res == oswe_main(source) IN Run(res, WriteLines(target, res.out), oswe_exit(res))

RunGpt ==
    LET res == fix_file(source) IN Run(res, WriteLines(target, res.out), gpt_exit(res))

RunOpus ==
    LET res == opus_fix_browsers_json(source)
        written_file == JoinLines(target, res.out)
    IN Run(res, written_file,
           opus_exit(source, target, res, IF res.written THEN written_file ELSE target))

RunSonnet ==
    LET res == sonnet_fix_browsers_json(source)
    IN Run(res, WriteLines(target, res.out), sonnet_exit(res))

\* the fixed file is taken as the input of the next run
Promote ==
    /\ phase = "ran"
    /\ target.exists
    /\ source # target
    /\ source' = target
    /\ phase' = "promoted"
    /\ UNCHANGED <<target, hist, report>>

Next ==
    \/ \E l \in LineValues : AppendLine(l)
    \/ RemoveSource
    \/ RunOswe
    \/ RunGpt
    \/ RunOpus
    \/ RunSonnet
    \/ Promote

Spec == Init /\ [][Next]_vars

\* -------------------------------------------------- the test scripts at work
\* the fixed data file and the original one are whatever the project holds
VInit ==
    /\ source \in VOriginals
    /\ target \in VFiles \cup {NoFile}
    /\ phase = "verify"
    /\ hist = <<>>
    /\ report = NoReport

\* mutant: the fixed data file is opened with "w"
Reported_w(r) ==
    /\ phase = "verify"
    /\ report' = r
    /\ phase' = "reported"
    /\ target' = File(<<>>, FALSE)
    /\ UNCHANGED <<source, hist>>

\* one script is run on the data files as they stand; every script opens
\* them for reading only
Reported(r) ==
    /\ phase = "verify"
    /\ report' = r
    /\ phase' = "reported"
    /\ UNCHANGED <<source, target, hist>>

\* a loader is called on the fixed data file
VLoad(ld) ==
    LET r == LoadWith(ld, target)
    IN Reported([op |-> "load", impl |-> ld, file |-> target, status |-> r.status,
                 line |-> r.line, data |-> r.data])

\* save_jsonl writes a sequence of records to the fixed data file; hist keeps
\* the values written.  open(path, "w") discards whatever the file held, so the
\* save is taken where there is no file yet.
VRecordSeqs == UNION {[1..n -> VRecords] : n \in 0..MaxLines}

VSave(recs) ==
    /\ phase = "verify"
    /\ hist = <<>>
    /\ ~target.exists
    /\ target' = WriteLines(target, AsObjs(recs))
    /\ hist' = <<[saved |-> AsObjs(recs)]>>
    /\ report' = [op |-> "save", impl |-> "oswe"]
    /\ UNCHANGED <<source, phase>>

\* load_jsonl and compute_stats of oswe's tests package, on the fixed data file
VStatsOswe ==
    LET ld == oswe_tests_load_jsonl(target)
    IN Reported(IF ld.status # "ok"
                THEN [op |-> "stats", impl |-> "oswe", status |-> ld.status]
                ELSE IF StatsFails(ld.data)
                THEN [op |-> "stats", impl |-> "oswe", status |-> "AttributeError"]
                ELSE [op |-> "stats", impl |-> "oswe", status |-> "ok",
                      stats |-> tests_compute_stats(ld.data)])

\* verify_fix of opus, called on a fixed data file that exists
VVerifyFixOpus ==
    /\ target.exists
    /\ LET v == verify_fix(target)
       IN Reported(IF v.raises
                   THEN [op |-> "verify_fix", impl |-> "opus", status |-> "AttributeError"]
                   ELSE [op |-> "verify_fix", impl |-> "opus", status |-> "ok",
                         total_uas |-> v.total_uas,
                         with_trailing_spaces |-> v.with_trailing_spaces,
                         valid_json |-> v.valid_json])

\* tests/test_data_integrity.py of each project, on its fixed data file
VIntegrityOswe == Reported(oswe_data_integrity_run(target))

VIntegrityGpt == Reported(gpt_data_integrity_run(target))

VIntegrityOpus == Reported(test_data_integrity(target))

\* test_fix.py of a project, on the original and the fixed data file
VVerifyOpus(httpx) == Reported(opus_test_fix_main(source, target, httpx))

VVerifyGpt == Reported(gpt_test_fix_main(source, target))

\* the comparison of the fixed file with the original one
VRegressionGpt == Reported(gpt_no_trailing_run(source, target))

VRegressionSonnet == Reported(test_fix_effectiveness(source, target))

\* tests/test_no_trailing_spaces.py of a project, on the original and the
\* fixed data file
VWhitespaceOswe == Reported(oswe_no_trailing_run(source, target))

VWhitespaceSonnet == Reported(sonnet_no_trailing_main(source, target))

\* tests/test_httpx_compatibility.py of a project, on its fixed data file
VHttpxGpt(httpx) == Reported(gpt_httpx_run(target, httpx))

VHttpxOswe(httpx) == Reported(oswe_httpx_run(target, httpx))

\* tests/test_all.py of opus, on its fixed data file
VTestAllOpus(httpx) == Reported(opus_test_all_main(target, httpx))

VNext ==
    \/ \E ld \in Loaders : VLoad(ld)
    \/ VStatsOswe
    \/ VVerifyFixOpus
    \/ VIntegrityOswe
    \/ VIntegrityGpt
    \/ VIntegrityOpus
    \/ \E httpx \in HttpxVerdicts : VVerifyOpus(httpx)
    \/ VVerifyGpt
    \/ VRegressionGpt
    \/ VRegressionSonnet
    \/ VWhitespaceOswe
    \/ VWhitespaceSonnet
    \/ \E httpx \in HttpxVerdicts : VHttpxGpt(httpx)
    \/ \E httpx \in HttpxVerdicts : VHttpxOswe(httpx)
    \/ \E httpx \in HttpxVerdicts : VTestAllOpus(httpx)
    \/ \E recs \in VRecordSeqs : VSave(recs)

SpecVerify == VInit /\ [][VNext]_vars

\* ------------------------------------------------ SimpleTestRunner at work
\* report is the runner object: results, passed, failed.  hist receives what
\* run_report did: the exception it raised ("" when it returned) and the
\* value it returned.
TestItems == {"Load Data", "User Agent Count"}
Details == {None, Str(<<"a">>)}

\* SimpleTestRunner.__init__
RunnerInit ==
    /\ source = NoFile
    /\ target = NoFile
    /\ phase = "collect"
    /\ hist = <<>>
    /\ report = [op |-> "runner", test_name |-> "Data Integrity Tests", results |-> <<>>,
                 passed |-> 0, failed |-> 0]

\* SimpleTestRunner.add_result
add_result(test_item, passed, details) ==
    /\ phase = "collect"
    /\ Len(report.results) < MaxResults
    /\ report' = [report EXCEPT
                    !.results = Append(@, [test |-> test_item, passed |-> passed,
                                           details |-> details]),
                    !.passed = IF passed THEN @ + 1 ELSE @,
                    !.failed = IF passed THEN @ ELSE @ + 1]
    /\ UNCHANGED <<source, target, phase, hist>>

\* SimpleTestRunner.run_report: print_summary divides by passed + failed
\* before the verdict is returned
run_report ==
    /\ phase = "collect"
    /\ LET total == report.passed + report.failed
       IN hist' = <<IF total = 0
                    THEN [op |-> "run_report", raised |-> "ZeroDivisionError",
                          returned |-> FALSE]
                    ELSE [op |-> "run_report", raised |-> "",
                          returned |-> (report.failed = 0)]>>
    /\ phase' = "reported"
    /\ UNCHANGED <<source, target, report>>

RunnerNext ==
    \/ \E test_item \in TestItems, passed \in BOOLEAN, details \in Details :
          add_result(test_item, passed, details)
    \/ run_report

SpecRunner == RunnerInit /\ [][RunnerNext]_vars

\* =================================================================== claims
\* what a run's source holds, read independently of any script: the JSON
\* values of its non-blank, parsable lines, in file order
IsJsonLine(l) == l.k = "json"
Loaded(f) ==
    LET js == SelectSeq(f.lines, IsJsonLine) IN [i \in 1..Len(js) |-> js[i].v]

BadLines(f) == {i \in 1..Len(f.lines) : f.lines[i].k = "bad"}
NonDictLines(f) == {i \in 1..Len(f.lines) : f.lines[i].k = "json" /\ ~IsDict(f.lines[i].v)}
\* a line no script stumbles on: blank, or an object whose useragent is a string or absent
CleanLine(l) ==
    \/ l.k = "blank"
    \/ l.k = "json" /\ IsDict(l.v) /\ IsStr(Get(l.v.r, "useragent", EmptyStr))
CleanBefore(f, i) == \A j \in 1..(i - 1) : CleanLine(f.lines[j])

UAOf(v) == Get(v.r, "useragent", None)
Rest(r) == [f \in (DOMAIN r) \ {"useragent"} |-> r[f]]

\* b is a with p leading characters, all in lead, and q trailing characters, all in trail, removed
TrimOf(a, b, lead, trail) ==
    \E p \in 0..Len(a) : \E q \in 0..(Len(a) - p) :
        /\ b = SubSeq(a, p + 1, Len(a) - q)
        /\ \A k \in 1..p : a[k] \in lead
        /\ \A k \in (Len(a) - q + 1)..Len(a) : a[k] \in trail

\* the runs that wrote a target
WrittenRuns == {n \in DOMAIN hist : hist[n].res.written}
\* the positions at which a run's input and output both hold an object with a string useragent
StrPairs(n) ==
    {i \in (DOMAIN Loaded(hist[n].src)) \cap (DOMAIN hist[n].res.out) :
        /\ IsDict(Loaded(hist[n].src)[i])
        /\ IsStr(UAOf(Loaded(hist[n].src)[i]))
        /\ IsStr(UAOf(hist[n].res.out[i]))}
InUA(n, i) == UAOf(Loaded(hist[n].src)[i]).s
OutUA(n, i) == UAOf(hist[n].res.out[i]).s

CE_C3 ==
    \A n \in DOMAIN hist :
        LET e == hist[n]
            in == Loaded(e.src)
        IN (e.src.exists /\ BadLines(e.src) = {} /\ NonDictLines(e.src) = {}) =>
              /\ e.res.status \notin {"AttributeError", "TypeError"}
              /\ e.res.written
              /\ Len(e.res.out) = Len(in)
              /\ \A i \in DOMAIN in : ~IsStr(UAOf(in[i])) => e.res.out[i] = in[i]
              /\ e.res.stats.fixed <= Cardinality({i \in DOMAIN in : IsStr(UAOf(in[i]))})

\* C4: in every record a run writes, the fields other than useragent (their
\* names and their values) are those of the input record at the same position.
Thm_C4 ==
    \A n \in WrittenRuns :
        LET in == Loaded(hist[n].src)
            out == hist[n].res.out
        IN \A i \in (DOMAIN in) \cap (DOMAIN out) :
              IsDict(in[i]) => Rest(out[i].r) = Rest(in[i].r)

\* C4 witness: a run changed the useragent of a record that has another field
Wit_C4 ==
    \E n \in WrittenRuns : \E i \in StrPairs(n) :
        /\ OutUA(n, i) # InUA(n, i)
        /\ "browser" \in DOMAIN Loaded(hist[n].src)[i].r

\* the per-record step of each script
Normalized(impl, v) ==
    CASE impl = "oswe" -> oswe_fix_one(v)
      [] impl = "gpt" -> _clean_record(v)
      [] impl = "opus" -> opus_fix_one(v)
      [] impl = "sonnet" -> sonnet_fix_one(v)

\* C5: for a source that loads (it exists and every non-blank line parses), a run
\* writes exactly as many records as the source holds, and the i-th of them is
\* the normalization of the i-th input record.
Thm_C5 ==
    \A n \in WrittenRuns :
        LET e == hist[n]
            in == Loaded(e.src)
        IN BadLines(e.src) = {} =>
              /\ Len(e.res.out) = Len(in)
              /\ \A i \in DOMAIN in :
                    IsDict(in[i]) /\ e.res.out[i] = Obj(Normalized(e.res.impl, in[i]).rec)

\* C5 witness: a run wrote the two distinct records of its source, one of them changed
Wit_C5 ==
    \E n \in WrittenRuns :
        /\ BadLines(hist[n].src) = {}
        /\ Len(Loaded(hist[n].src)) > 1
        /\ Loaded(hist[n].src)[1] # Loaded(hist[n].src)[2]
        /\ hist[n].res.out # Loaded(hist[n].src)

UASeq(out) == [i \in DOMAIN out |-> UAOf(out[i])]

CE_C8 ==
    \A n \in WrittenRuns :
        LET st == hist[n].res.stats
        IN /\ st.total = Len(Loaded(hist[n].src))
           /\ "unchanged" \in DOMAIN st =>
                 /\ st.unchanged = st.total - st.fixed
                 /\ st.fixed + st.unchanged = st.total

\* C9: when the first line a run cannot take is unparsable, the run fails with
\* the error that cites that line's 1-based number, and the target is not written.
CE_C9 ==
    \A n \in DOMAIN hist :
        LET e == hist[n]
        IN \A i \in (IF e.src.exists THEN BadLines(e.src) ELSE {}) :
              CleanBefore(e.src, i) =>
                 /\ e.res.status = "ValueError"
                 /\ e.res.errLine = i
                 /\ ~e.res.written
                 /\ e.after = e.before

\* C10: when the first line a run cannot take parses to a value that is not a
\* mapping, the run fails with the same error as for an unparsable line, citing
\* that line's 1-based number.
CE_C10 ==
    \A n \in DOMAIN hist :
        LET e == hist[n]
        IN \A i \in (IF e.src.exists THEN NonDictLines(e.src) ELSE {}) :
              CleanBefore(e.src, i) =>
                 /\ e.res.status = "ValueError"
                 /\ e.res.errLine = i

\* ------------------------------------------------------------------- C11
\* C11 (as stated): loading a data file that does not exist fails with the
\* file-not-found error; no loader returns an empty dataset in its place.
CE_C11 ==
    (report.op = "load" /\ ~report.file.exists)
        => report.status = "FileNotFoundError"

\* ------------------------------------------------------------------- C12
NotBlank(l) == l.k # "blank"
NonBlankLines(f) == SelectSeq(f.lines, NotBlank)
\* every line is blank or holds one JSON text without a raw line boundary
AllLinesParse(f) ==
    f.exists /\ BadLines(f) = {} /\ splitlines(f.lines) = f.lines

\* C12: blank and whitespace-only lines are skipped silently wherever they
\* stand: the load succeeds and returns exactly one record per non-blank
\* line, in file order.
Thm_C12 ==
    (report.op = "load" /\ AllLinesParse(report.file))
        => /\ report.status = "ok"
           /\ Len(report.data) = Len(NonBlankLines(report.file))
           /\ \A i \in DOMAIN report.data :
                  NonBlankLines(report.file)[i] = JsonLine(report.data[i])

\* a record after a whitespace-only line was loaded alone
Wit_C12 ==
    /\ report.op = "load"
    /\ report.file.exists
    /\ Len(report.file.lines) = 2
    /\ report.file.lines[1] = WsLine
    /\ report.status = "ok"
    /\ report.data = <<Obj(VGood)>>

\* ------------------------------------------------------------------- C13
\* the number of newline characters a file holds
Terminators(f) ==
    IF f.nl THEN Len(f.lines)
    ELSE IF f.lines = <<>> THEN 0
    ELSE Len(f.lines) - 1

\* C13 (as stated): saving N records writes exactly N lines, in order, each
\* followed by exactly one newline: N terminators, the last record's included.
CE_C13 ==
    \A n \in WrittenRuns :
        LET f == hist[n].after
            out == hist[n].res.out
        IN /\ f.exists
           /\ f.lines = [i \in 1..Len(out) |-> JsonLine(out[i])]
           /\ Terminators(f) = Len(out)

\* ------------------------------------------------------------------- C14
\* C14 (as stated): a record written by save and read back is the same record;
\* loading the file save_jsonl wrote returns the sequence of records saved.
CE_C14 ==
    (hist # <<>> /\ report.op = "load" /\ report.impl = "oswe" /\ report.file = target)
        => (report.status = "ok" /\ report.data = hist[1].saved)

\* ------------------------------------------------------------------- C15
\* the number of checks each data-integrity script makes
IntegrityChecks(impl) ==
    CASE impl = "oswe" -> 4
      [] impl = "gpt" -> 5
      [] impl = "opus" -> 5

\* C15 (as stated): on any dataset that loads, the data-integrity script
\* raises no exception: every problem shows as a failed check and every
\* check is still made.
CE_C15 ==
    (report.op = "integrity" /\ report.load = "ok")
        => /\ report.status = "ok"
           /\ Len(report.checks) = IntegrityChecks(report.impl)

\* ------------------------------------------------------------------- C16
AllPassed(checks) == \A k \in DOMAIN checks : checks[k].passed

\* C16 (as stated): the verify command exits 0 exactly when every check it
\* made passed; a failed check, the record-count check included, gives a
\* non-zero exit code.
CE_C16 ==
    (report.op = "verify" /\ report.status = "ok" /\ report.checks # <<>>)
        => (report.exit = 0 <=> AllPassed(report.checks))

\* ------------------------------------------------------------------- C17
\* C17 (as stated): the fix command exits 0 on success and with a non-zero
\* code whenever the source is missing or holds a malformed line.
CE_C17 ==
    \A n \in DOMAIN hist :
        LET h == hist[n]
            failure == ~h.src.exists \/ BadLines(h.src) # {}
        IN /\ failure => h.exit # 0
           /\ (~failure /\ h.res.status = "ok") => h.exit = 0

\* ------------------------------------------------------------------- C18
\* the number of records of a file whose useragent ends with a space
TrailingCount(f) ==
    Cardinality({i \in DOMAIN Loaded(f) :
        LET ua == Get(Loaded(f)[i].r, "useragent", EmptyStr) IN endswith(ua.s, SPACE)})

\* C18 (as stated): the regression comparison passes exactly when the
\* trailing-space count is zero in the fixed dataset and strictly smaller
\* than in the original.
CE_C18 ==
    (report.op = "regression" /\ report.status = "ok" /\ source.exists)
        => (report.passed <=>
               (TrailingCount(target) = 0 /\ TrailingCount(target) < TrailingCount(source)))

\* ------------------------------------------------------------------- C19
\* no leading space, no trailing space, no character below 0x20 or equal to 0x7F
HeaderRule(s) ==
    /\ ~startswith(s, SPACE)
    /\ ~endswith(s, SPACE)
    /\ \A i \in DOMAIN s : s[i] \notin ControlChars

\* C19 (as stated): without the HTTP client library, the fallback header
\* predicate accepts a string exactly when it has no leading space, no
\* trailing space and no character with code point below 0x20 or equal to 0x7F.
CE_C19 ==
    (report.op = "httpx" /\ report.fallback /\ report.status = "ok")
        => \A i \in DOMAIN report.verdicts :
               IsStr(report.uas[i]) => (report.verdicts[i] <=> HeaderRule(report.uas[i].s))

\* ------------------------------------------------------------------- C20
\* every record is a dict with the seven fields, each of the right type
WellFormed(data) ==
    \A i \in DOMAIN data :
        /\ IsDict(data[i])
        /\ DOMAIN data[i].r = required_keys
        /\ \A fld \in required_keys : HasType(fld, data[i].r[fld])

\* the records whose type is outside {pc, mobile, tablet}
BadTypes(data) == {i \in DOMAIN data : data[i].r["type"] \notin EXPECTED_TYPES}

\* the checks of a report that are about the value domains
DomainChecks(checks) ==
    {k \in DOMAIN checks : checks[k].name \in {"domain", "Valid Browser Types"}}

\* C20 (as stated): on a dataset with a record whose type is outside
\* {pc, mobile, tablet}, the domain check is reported failed with a detail
\* naming the offending record and its value, and every other check is made.
CE_C20 ==
    (/\ report.op = "integrity"
     /\ report.load = "ok"
     /\ WellFormed(Loaded(report.file))
     /\ BadTypes(Loaded(report.file)) # {})
        => /\ Len(report.checks) = IntegrityChecks(report.impl)
           /\ \E k \in DomainChecks(report.checks) :
                  /\ ~report.checks[k].passed
                  /\ \A i \in BadTypes(Loaded(report.file)) :
                         \E e \in DOMAIN report.checks[k].detail.entries :
                             LET entry == report.checks[k].detail.entries[e]
                             IN /\ entry.idx = i
                                /\ entry.field = "type"
                                /\ entry.value = Loaded(report.file)[i].r["type"]

\* ------------------------------------------------------------------- C21
\* no string useragent of the file starts with a space, ends with a space or
\* holds two consecutive spaces
NoSpaceBlemish(f) ==
    \A i \in DOMAIN Loaded(f) :
        LET ua == Get(Loaded(f)[i].r, "useragent", EmptyStr)
        IN IsStr(ua) => /\ ~startswith(ua.s, SPACE)
                        /\ ~endswith(ua.s, SPACE)
                        /\ ~HasDoubleSpace(ua.s)

\* the checks of a whitespace test that look at the fixed dataset's whitespace
\* (the first three of each script)
WhitespaceVerdict(r) == \A k \in 1..3 : r.checks[k].passed

\* C21 (as stated): the whitespace validation of a dataset passes if and only
\* if no record's useragent starts with a space, ends with a space or
\* contains two consecutive spaces.
CE_C21 ==
    (report.op = "whitespace" /\ report.status = "ok")
        => (WhitespaceVerdict(report) <=> NoSpaceBlemish(target))

Thm_C23 ==
    \A n \in WrittenRuns :
        /\ hist[n].res.impl = "oswe" => hist[n].res.stats.trailing = 0
        /\ hist[n].res.impl = "opus" =>
              /\ ~verify_fix(hist[n].after).raises
              /\ verify_fix(hist[n].after).with_trailing_spaces = 0

\* C23 witness: oswe or opus wrote two records whose useragents both ended
\* with a space in the source
Wit_C23 ==
    \E n \in WrittenRuns :
        /\ hist[n].res.impl \in {"oswe", "opus"}
        /\ Len(hist[n].res.out) = 2
        /\ StrPairs(n) = {1, 2}
        /\ \A i \in StrPairs(n) : endswith(InUA(n, i), SPACE)

\* ------------------------------------------------------------------- C24
\* the errors a run ends with when its source is missing or a line of it
\* does not parse
LoadErrors == {"FileNotFoundError", "ValueError", "JSONDecodeError"}

\* C24: a fix run that fails because the source is missing or a line is
\* malformed leaves the target untouched: not created, not truncated, not
\* partly written.
Thm_C24 ==
    \A n \in DOMAIN hist :
        hist[n].res.status \in LoadErrors
            => /\ ~hist[n].res.written
               /\ hist[n].after = hist[n].before

\* C24 witness: a run failed on a malformed second line, after a record it
\* could have written, with a target file already in place
Wit_C24 ==
    \E n \in DOMAIN hist :
        /\ hist[n].res.status \in LoadErrors
        /\ hist[n].src.exists
        /\ Len(hist[n].src.lines) = 2
        /\ hist[n].src.lines[1].k = "json"
        /\ IsDict(hist[n].src.lines[1].v)
        /\ hist[n].src.lines[2] = BadLine
        /\ hist[n].before = GarbageFile

\* ------------------------------------------------------------------- C25
\* the positions at which the record a run wrote has another useragent than
\* the record it read (a record without the field has none)
ChangedUA(n) ==
    {i \in (DOMAIN Loaded(hist[n].src)) \cap (DOMAIN hist[n].res.out) :
        /\ IsDict(Loaded(hist[n].src)[i])
        /\ UAOf(hist[n].res.out[i]) # UAOf(Loaded(hist[n].src)[i])}

\* C25 (as stated): the fixed count a run returns is exactly the number of
\* records whose useragent in the output differs from its useragent in the
\* input.
CE_C25 ==
    \A n \in WrittenRuns : hist[n].res.stats.fixed = Cardinality(ChangedUA(n))

ZeroRecords(f) == f.exists /\ \A i \in DOMAIN f.lines : f.lines[i].k = "blank"

\* C27 (as stated): on a source that exists and holds zero records, the fix
\* run and the printing of its report complete without raising, report
\* total = 0, fixed = 0 and unchanged = 0, and write a target with no records.
CE_C27 ==
    \A n \in DOMAIN hist :
        ZeroRecords(hist[n].src) =>
            /\ hist[n].res.status = "ok"
            /\ hist[n].exit = 0
            /\ hist[n].res.stats.total = 0
            /\ hist[n].res.stats.fixed = 0
            /\ "unchanged" \in DOMAIN hist[n].res.stats => hist[n].res.stats.unchanged = 0
            /\ hist[n].res.written
            /\ hist[n].after.exists
            /\ hist[n].after.lines = <<>>

\* ------------------------------------------------------------------- C28
\* C28 (as stated): the all-tests runner reports a module as passed only if
\* every check of that module passed; a module whose data file failed to
\* load (the failed load check) or that recorded a failed check is never
\* reported as passed, and the runner then exits non-zero.
CE_C28 ==
    report.op = "all" =>
        \A k \in DOMAIN report.results :
            ~AllPassed(report.results[k].checks)
                => (~report.results[k].passed /\ report.exit # 0)

\* ------------------------------------------------------------------- C29
\* a string with no leading whitespace and no whitespace character but the space
PlainUA(s) ==
    /\ s = <<>> \/ s[1] \notin PyWhitespace
    /\ \A i \in DOMAIN s : s[i] \notin (PyWhitespace \ {SPACE})

\* a file of object records (and blank lines) whose useragent is such a string
WellFormedInput(f) ==
    /\ f.exists
    /\ \A i \in DOMAIN f.lines :
          \/ f.lines[i].k = "blank"
          \/ /\ f.lines[i].k = "json"
             /\ IsDict(f.lines[i].v)
             /\ "useragent" \in DOMAIN f.lines[i].v.r
             /\ IsStr(f.lines[i].v.r["useragent"])
             /\ PlainUA(f.lines[i].v.r["useragent"].s)

CE_C30 ==
    report.op = "runner" =>
        /\ report.passed + report.failed = Len(report.results)
        /\ report.passed = Cardinality({i \in DOMAIN report.results : report.results[i].passed})
        /\ hist # <<>> =>
              /\ hist[1].raised = ""
              /\ hist[1].returned <=> (report.failed = 0)

====
